---- MODULE Spec2Model ----
(***************************************************************************)
(* Model of the user service: the authorization gate (config/middleware.go)*)
(* the route table (routes.go), the handlers (handlers/handlers.go) and    *)
(* the users table they reach through GORM (database/database.go).         *)
(*                                                                         *)
(* Strings the code or the store reads character by character (the        *)
(* Authorization header, the password, the token, the path id) are         *)
(* sequences of one-character strings; strings the code only compares      *)
(* (email, name, role, messages) are TLA+ strings.                         *)
(***************************************************************************)
EXTENDS Integers, Sequences, FiniteSets, TLC

VARIABLES
    users,    \* the users table: row id -> row (soft-deleted rows stay in it)
    nextID,   \* the next value of the table's auto-increment primary key
    dbType,   \* the engine InitDB opened: "sqlite" or "postgres"
    req,      \* the request just answered, when it was served in one step
    resp,     \* the response just written
    inflight, \* per connection: the handler between its two store calls
    store     \* which calls on database.DB succeed: see StoreModes

vars == <<users, nextID, dbType, req, resp, inflight, store>>

\* Largest primary key the model lets the table assign.
MaxID == 2

----------------------------------------------------------------------------
(* Inputs                                                                  *)

\* binding:"email": the addresses the validator accepts, among those tried.
ValidEmails == {"a@b.com", "c@d.com"}

\* "" is an absent field, "bad" a string that is no address.
Emails == ValidEmails \cup {"", "bad"}

IsEmail(e) == e \in ValidEmails

\* The names Register and UpdateUser are sent: "" is an absent field.
RegisterNames == {"", "A"}

UpdateNames == {"", "B"}

Chars(n, c) == [i \in 1..n |-> c]

pwMissing == <<>>
pwShort == <<"a", "b", "c", "1", "2">>
pwA == <<"s", "e", "c", "r", "e", "t", "1">>
pwB == <<"s", "e", "c", "r", "e", "t", "2">>
pwLong == Chars(73, "x")

Passwords == {pwMissing, pwShort, pwA, pwB, pwLong}

\* The passwords Register and Login are sent.
RegisterPasswords == {pwMissing, pwShort, pwA, pwLong}

LoginPasswords == {pwMissing, pwA, pwB}

BearerPrefix == <<"B", "e", "a", "r", "e", "r", " ">>

TokenPrefix ==
    <<"j", "w", "t", "_", "t", "o", "k", "e", "n", "_",
      "s", "i", "m", "u", "l", "a", "d", "o", "_">>

hdrNone == <<>>
hdrNoSpace == <<"B", "e", "a", "r", "e", "r">>
hdrLower == <<"b", "e", "a", "r", "e", "r", " ", "x">>
hdrEmptyToken == BearerPrefix
hdrForged == BearerPrefix \o <<"x">>
hdrIssued == BearerPrefix \o TokenPrefix \o <<"1">>

Headers == {hdrNone, hdrNoSpace, hdrLower, hdrEmptyToken, hdrForged, hdrIssued}

RECURSIVE FormatUint(_)
\* strconv.FormatUint(n, 10)
FormatUint(n) ==
    LET digit == <<"0", "1", "2", "3", "4", "5", "6", "7", "8", "9">>
    IN  IF n < 10 THEN <<digit[n + 1]>>
        ELSE FormatUint(n \div 10) \o <<digit[(n % 10) + 1]>>

\* c.Param("id"), the path segment as the client sent it: a condition that
\* holds of every row, one that names row 2, the same with the rest of
\* the statement commented out, and an integer too large for an int.
pathAll == <<"1", "=", "1">>
pathRow == <<"i", "d", "=", "2">>
pathRowAny == pathRow \o <<" ", "-", "-">>
pathHuge == Chars(20, "9")

ConditionPaths == {pathAll, pathRow, pathRowAny, pathHuge}

\* Path ids: every key the table can assign, one it never assigns, and
\* the texts that are no integer.
PathIDs == {FormatUint(i) : i \in 1..(MaxID + 1)} \cup ConditionPaths

----------------------------------------------------------------------------
(* Authorization gate: config/middleware.go                                *)

BearerPrefixLen == 7

\* Variant: only the presence of the header is checked.
AuthMiddleware_PresenceOnly(token) ==
    IF token = <<>> THEN 401 ELSE 0

\* Variant: a header that is the bare prefix (an empty token) is refused.
AuthMiddleware_NeedsToken(token) ==
    IF token = <<>> THEN 401
    ELSE IF Len(token) <= BearerPrefixLen
            \/ SubSeq(token, 1, BearerPrefixLen) # BearerPrefix THEN 401
    ELSE 0

\* The status AuthMiddleware aborts with, or 0 when it calls c.Next().
AuthMiddleware(token) ==
    IF token = <<>> THEN 401
    ELSE IF Len(token) < BearerPrefixLen
            \/ SubSeq(token, 1, BearerPrefixLen) # BearerPrefix THEN 401
    ELSE 0

AuthError(token) ==
    IF token = <<>> THEN "Token de autorización requerido"
    ELSE "Formato de token inválido"

----------------------------------------------------------------------------
(* Password verifier: golang.org/x/crypto/bcrypt as the handlers call it   *)

MinPasswordLen == 6

\* GenerateFromPassword refuses a password longer than this many bytes.
BcryptMaxLen == 72

HashTag == <<"$", "2", "a", "$", "1", "0", "$">>

\* Blowfish's key schedule reads the first BcryptMaxLen bytes of the key.
BcryptKey(password) ==
    IF Len(password) > BcryptMaxLen THEN SubSeq(password, 1, BcryptMaxLen)
    ELSE password

\* The stored form of a password: never the password itself.  The salt is
\* not modelled: no handler reads a hash except through the comparison.
GenerateFromPassword(password) == HashTag \o BcryptKey(password)

GenerateFails(password) == Len(password) > BcryptMaxLen

\* TRUE when bcrypt.CompareHashAndPassword returns nil.
CompareHashAndPassword(hashed, password) ==
    hashed = HashTag \o BcryptKey(password)

----------------------------------------------------------------------------
(* The users table: database.User behind GORM                              *)

NotFound == 0

\* Variant: the record is built without its role and its active flag.
NewUser_ZeroValues(email, hashed, name) ==
    [ID |-> 0, Email |-> email, Password |-> hashed, Name |-> name,
     Role |-> "", IsActive |-> FALSE, DeletedAt |-> FALSE]

NewUser(email, hashed, name) ==
    [ID |-> 0, Email |-> email, Password |-> hashed, Name |-> name,
     Role |-> "user", IsActive |-> TRUE, DeletedAt |-> FALSE]

\* gorm.Model carries DeletedAt, so every query adds "deleted_at IS NULL".
Live(tbl) == {i \in DOMAIN tbl : ~tbl[i].DeletedAt}

Min(S) == CHOOSE x \in S : \A y \in S : x <= y

\* DB.Where("email = ?", e).First(&u): the live row with the least key.
FirstByEmail(tbl, e) ==
    LET hit == {i \in Live(tbl) : tbl[i].Email = e}
    IN  IF hit = {} THEN NotFound ELSE Min(hit)

Digits == {"0", "1", "2", "3", "4", "5", "6", "7", "8", "9"}

AllDigits(s) == Len(s) > 0 /\ \A i \in 1..Len(s) : s[i] \in Digits

RECURSIVE StripZeros(_)
StripZeros(s) ==
    IF Len(s) > 1 /\ s[1] = "0" THEN StripZeros(Tail(s)) ELSE s

DigitValue(c) == CHOOSE n \in 0..9 : FormatUint(n) = <<c>>

\* a <= b for two digit strings of one length
RECURSIVE DigitsLE(_, _)
DigitsLE(a, b) ==
    IF a = <<>> THEN TRUE
    ELSE IF a[1] # b[1] THEN DigitValue(a[1]) < DigitValue(b[1])
    ELSE DigitsLE(Tail(a), Tail(b))

\* math.MaxInt64, and the magnitude of math.MinInt64
MaxInt ==
    <<"9", "2", "2", "3", "3", "7", "2", "0", "3", "6",
      "8", "5", "4", "7", "7", "5", "8", "0", "7">>

MinIntMagnitude == SubSeq(MaxInt, 1, Len(MaxInt) - 1) \o <<"8">>

Signed(s) == Len(s) > 0 /\ s[1] \in {"+", "-"}

Unsigned(s) == IF Signed(s) THEN Tail(s) ELSE s

\* strconv.Atoi(s) returns no error: an optional sign, decimal digits, and
\* a value an int holds.
Atoi(s) ==
    LET d == StripZeros(Unsigned(s))
        limit == IF Signed(s) /\ s[1] = "-" THEN MinIntMagnitude ELSE MaxInt
    IN  /\ AllDigits(Unsigned(s))
        /\ \/ Len(d) < Len(limit)
           \/ Len(d) = Len(limit) /\ DigitsLE(d, limit)

\* users.id = 'text': the row whose key the text denotes.
KeyIs(s, i) ==
    /\ ~(Signed(s) /\ s[1] = "-")
    /\ StripZeros(Unsigned(s)) = FormatUint(i)

\* Where "--" begins in the text, 0 when it holds none.
CommentAt(s) ==
    LET at == {i \in 1..(Len(s) - 1) : s[i] = "-" /\ s[i + 1] = "-"}
    IN  IF at = {} THEN 0 ELSE Min(at)

RECURSIVE Trim(_)
Trim(s) ==
    IF s = <<>> THEN s
    ELSE IF s[1] = " " THEN Trim(Tail(s))
    ELSE IF s[Len(s)] = " " THEN Trim(SubSeq(s, 1, Len(s) - 1))
    ELSE s

\* The condition the engine reads: the text up to a comment.
Condition(s) ==
    Trim(IF CommentAt(s) = 0 THEN s ELSE SubSeq(s, 1, CommentAt(s) - 1))

EqualsAt(c) ==
    LET at == {i \in 1..Len(c) : c[i] = "="}
    IN  IF at = {} THEN 0 ELSE Min(at)

Lhs(c) == Trim(SubSeq(c, 1, EqualsAt(c) - 1))

Rhs(c) == Trim(SubSeq(c, EqualsAt(c) + 1, Len(c)))

\* The forms of condition the inputs use: a number, number = number,
\* id = number.  A number alone is a truth value to sqlite and a type error
\* to postgres; any other text is answered with an error.
ConditionFails(c, engine) ==
    IF AllDigits(c) THEN engine = "postgres"
    ELSE IF EqualsAt(c) = 0 THEN TRUE
    ELSE ~(/\ AllDigits(Rhs(c))
           /\ AllDigits(Lhs(c)) \/ Lhs(c) = <<"i", "d">>)

ConditionHolds(c, row) ==
    IF AllDigits(c) THEN StripZeros(c) # <<"0">>
    ELSE IF AllDigits(Lhs(c)) THEN StripZeros(Lhs(c)) = StripZeros(Rhs(c))
    ELSE FormatUint(row.ID) = StripZeros(Rhs(c))

\* The statement DB.First(&u, id) runs for each path sent.  Statement.
\* BuildCondition: a text Atoi accepts is the primary key, bound as a
\* parameter; any other text is the WHERE condition itself, and a comment
\* in it removes what follows it in the statement: the "deleted_at IS
\* NULL" of the soft-delete scope, ORDER BY and LIMIT.  scoped: the scope
\* is in force; refused: the engines that answer the statement with an
\* error; keys: the keys of the rows the argument selects.
Statement ==
    [id \in PathIDs |->
        [scoped |-> Atoi(id) \/ CommentAt(id) = 0,
         refused |-> {engine \in {"sqlite", "postgres"} :
                         ~Atoi(id) /\ ConditionFails(Condition(id), engine)},
         keys |-> {i \in 1..(MaxID + 1) :
                      IF Atoi(id) THEN KeyIs(id, i)
                      ELSE ConditionHolds(Condition(id), [ID |-> i])}]]

\* DB.First(&u, id): the selected row with the least key (the inputs'
\* conditions select one row at most where ORDER BY is commented out);
\* an error of the statement is answered like a missing row.
FirstByID(tbl, engine, id) ==
    LET scope == IF Statement[id].scoped THEN Live(tbl) ELSE DOMAIN tbl
        hit == IF engine \in Statement[id].refused THEN {}
               ELSE scope \cap Statement[id].keys
    IN  IF hit = {} THEN NotFound ELSE Min(hit)

\* Variant: the Email column carries no UNIQUE constraint.
UniqueViolation_None(tbl, id, e) == FALSE

\* gorm:"unique" on Email: the column's UNIQUE constraint covers every row
\* of the table, soft-deleted ones included.
UniqueViolation(tbl, id, e) ==
    \E j \in DOMAIN tbl \ {id} : tbl[j].Email = e

Put(tbl, id, row) ==
    [i \in DOMAIN tbl \cup {id} |-> IF i = id THEN row ELSE tbl[i]]

\* Variant: the insert is not checked against the other rows' emails.
DBCreate_NoConstraint(tbl, nid, u) ==
    [ok |-> TRUE, users |-> Put(tbl, nid, [u EXCEPT !.ID = nid]), id |-> nid]

\* Variant: the insert takes the least key no live row holds.
DBCreate_ReusesKey(tbl, nid, u) ==
    LET id == Min((1..nid) \ Live(tbl))
    IN  IF UniqueViolation(tbl, id, u.Email)
        THEN [ok |-> FALSE, users |-> tbl, id |-> 0]
        ELSE [ok |-> TRUE, users |-> Put(tbl, id, [u EXCEPT !.ID = id]),
              id |-> id]

\* DB.Create(&u): [ok, users, id].
DBCreate(tbl, nid, u) ==
    IF UniqueViolation(tbl, nid, u.Email)
    THEN [ok |-> FALSE, users |-> tbl, id |-> 0]
    ELSE [ok |-> TRUE, users |-> Put(tbl, nid, [u EXCEPT !.ID = nid]),
          id |-> nid]

\* Variant: the save is not checked against the other rows' emails.
DBSave_NoConstraint(tbl, u) == [ok |-> TRUE, users |-> Put(tbl, u.ID, u)]

\* DB.Save(&u): UPDATE of every column of the live row u.ID; when no row
\* was affected, INSERT .. ON CONFLICT (id) DO UPDATE of every column.
DBSave(tbl, u) ==
    IF UniqueViolation(tbl, u.ID, u.Email)
    THEN [ok |-> FALSE, users |-> tbl]
    ELSE [ok |-> TRUE, users |-> Put(tbl, u.ID, u)]

\* DB.Delete(&u): a soft delete, UPDATE .. SET deleted_at = now.
DBDelete(tbl, id) ==
    IF id \in Live(tbl)
    THEN [tbl EXCEPT ![id].DeletedAt = TRUE]
    ELSE tbl

\* A failed INSERT leaves sqlite's AUTOINCREMENT counter alone and has
\* already drawn a value from postgres's sequence.
AfterFailedInsert(engine, nid) ==
    IF engine = "postgres" THEN nid + 1 ELSE nid

----------------------------------------------------------------------------
(* Requests and responses                                                  *)

Request(op, hdr, id, email, password, name) ==
    [op |-> op, hdr |-> hdr, id |-> id, email |-> email,
     password |-> password, name |-> name]

\* What c.JSON wrote: the status, the "error" and "message" texts, the
\* "token", and the user objects of the body.  handler is the handler that
\* ran ("none" when the gate aborted the chain); invalid lists the
\* <<field, tag>> pairs a failed binding names in its error text.
Response(status, handler, error, message, invalid, token, body) ==
    [status |-> status, handler |-> handler, error |-> error,
     message |-> message, invalid |-> invalid, token |-> token,
     body |-> body]

NoRequest == Request("none", <<>>, <<>>, "", <<>>, "")

NoResponse == Response(0, "none", "", "", {}, <<>>, {})

Fail(status, handler, error) ==
    Response(status, handler, error, "", {}, <<>>, {})

BindFail(handler, invalid) ==
    Response(400, handler, "Field validation failed", "", invalid, <<>>, {})

\* What a handler leaves behind: the table, the key counter, the response.
Outcome(tbl, nid, r) == [users |-> tbl, nextID |-> nid, resp |-> r]

\* gin.H{"id", "email", "name", "role"}
Summary(u) ==
    [id |-> u.ID, email |-> u.Email, name |-> u.Name, role |-> u.Role]

\* Variant: the copy is serialized as loaded.
Scrub_Keep(u) == u

\* user.Password = "" on the handler's copy
Scrub(u) == [u EXCEPT !.Password = <<>>]

----------------------------------------------------------------------------
(* Request binding: the binding tags of handlers.go:277-291                *)

RequiredEmail(e) ==
    IF e = "" THEN {<<"Email", "required">>}
    ELSE IF ~IsEmail(e) THEN {<<"Email", "email">>}
    ELSE {}

\* Variant: the password carries no minimum length.
BindRegister_NoMin(r) ==
    RequiredEmail(r.email)
    \cup (IF Len(r.password) = 0 THEN {<<"Password", "required">>} ELSE {})
    \cup (IF r.name = "" THEN {<<"Name", "required">>} ELSE {})

\* RegisterRequest
BindRegister(r) ==
    RequiredEmail(r.email)
    \cup (IF Len(r.password) = 0 THEN {<<"Password", "required">>}
          ELSE IF Len(r.password) < MinPasswordLen
               THEN {<<"Password", "min">>}
          ELSE {})
    \cup (IF r.name = "" THEN {<<"Name", "required">>} ELSE {})

\* LoginRequest
BindLogin(r) ==
    RequiredEmail(r.email)
    \cup (IF Len(r.password) = 0 THEN {<<"Password", "required">>} ELSE {})

\* UpdateUserRequest
BindUpdate(r) ==
    IF r.email # "" /\ ~IsEmail(r.email) THEN {<<"Email", "email">>} ELSE {}

----------------------------------------------------------------------------
(* Calls on database.DB that fail                                          *)

\* The store answers every call ("up"), only its reads ("readonly": a
\* standby, a full disk), or none ("down": the connection is lost).
StoreModes == {"up", "readonly", "down"}

\* First, Find and Where(..).First return an error that is no
\* gorm.ErrRecordNotFound.
ReadFails(mode) == mode = "down"

\* Create, Save and Delete return an error.
WriteFails(mode) == mode # "up"

----------------------------------------------------------------------------
(* Handlers: handlers/handlers.go.  mode is the mode of the store at the   *)
(* store call of the handler, or of the part of the handler, defined.      *)

\* Variant: the payload reports how many users the table holds.
HealthCheckHandler_CountsUsers(tbl, nid) ==
    Outcome(tbl, nid,
        Response(200, "HealthCheck", "", "API funcionando correctamente",
                 {}, <<>>,
                 {[status |-> "OK", version |-> "1.0.0",
                   users |-> Cardinality(Live(tbl))]}))

\* The body carries the "status" and "version" of the payload.
HealthCheckHandler(tbl, nid) ==
    Outcome(tbl, nid,
        Response(200, "HealthCheck", "", "API funcionando correctamente",
                 {}, <<>>, {[status |-> "OK", version |-> "1.0.0"]}))

\* What a handler has after its first store call: its response when it
\* is done, or the record it holds when it goes on to its write.
Step(done, r, user) == [done |-> done, resp |-> r, user |-> user]

\* var user database.User: the zero value
NoUser ==
    [ID |-> 0, Email |-> "", Password |-> <<>>, Name |-> "", Role |-> "",
     IsActive |-> FALSE, DeletedAt |-> FALSE]

\* Variant: the record carries the password as received.
RegisterBegin_StoresPlain(mode, tbl, r) ==
    IF BindRegister(r) # {}
    THEN Step(TRUE, BindFail("Register", BindRegister(r)), NoUser)
    ELSE IF ~ReadFails(mode) /\ FirstByEmail(tbl, r.email) # NotFound
    THEN Step(TRUE, Fail(400, "Register", "El email ya está registrado"),
              NoUser)
    ELSE IF GenerateFails(r.password)
    THEN Step(TRUE,
              Fail(500, "Register", "Error al procesar la contraseña"),
              NoUser)
    ELSE Step(FALSE, NoResponse, NewUser(r.email, r.password, r.name))

\* Register up to the insert: binding, lookup, hashing.  The lookup is
\* tested for err == nil only: a lookup that fails counts as "no such
\* email" and the handler goes on.
RegisterBegin(mode, tbl, r) ==
    IF BindRegister(r) # {}
    THEN Step(TRUE, BindFail("Register", BindRegister(r)), NoUser)
    ELSE IF ~ReadFails(mode) /\ FirstByEmail(tbl, r.email) # NotFound
    THEN Step(TRUE, Fail(400, "Register", "El email ya está registrado"),
              NoUser)
    ELSE IF GenerateFails(r.password)
    THEN Step(TRUE,
              Fail(500, "Register", "Error al procesar la contraseña"),
              NoUser)
    ELSE Step(FALSE, NoResponse,
              NewUser(r.email, GenerateFromPassword(r.password), r.name))

\* Variant: a refused insert is answered as a taken email.
RegisterCreate_AnswersConflict(mode, tbl, nid, engine, user) ==
    LET made == DBCreate(tbl, nid, user)
    IN  IF WriteFails(mode)
        THEN Outcome(tbl, nid,
                 Fail(500, "Register", "Error al crear el usuario"))
        ELSE IF ~made.ok
        THEN Outcome(tbl, AfterFailedInsert(engine, nid),
                 Fail(400, "Register", "El email ya está registrado"))
        ELSE Outcome(made.users, nid + 1,
                 Response(201, "Register", "",
                          "Usuario creado exitosamente", {}, <<>>,
                          {Summary(made.users[made.id])}))

\* Register from the insert on; user is the record the handler built.
RegisterCreate(mode, tbl, nid, engine, user) ==
    LET made == DBCreate(tbl, nid, user)
    IN  IF WriteFails(mode)
        THEN Outcome(tbl, nid,
                 Fail(500, "Register", "Error al crear el usuario"))
        ELSE IF ~made.ok
        THEN Outcome(tbl, AfterFailedInsert(engine, nid),
                 Fail(500, "Register", "Error al crear el usuario"))
        ELSE Outcome(made.users, nid + 1,
                 Response(201, "Register", "",
                          "Usuario creado exitosamente", {}, <<>>,
                          {Summary(made.users[made.id])}))

\* Variant: no lookup before the insert.
RegisterHandler_NoLookup(mode, tbl, nid, engine, r) ==
    IF BindRegister(r) # {}
    THEN Outcome(tbl, nid, BindFail("Register", BindRegister(r)))
    ELSE IF GenerateFails(r.password)
    THEN Outcome(tbl, nid,
             Fail(500, "Register", "Error al procesar la contraseña"))
    ELSE RegisterCreate(mode, tbl, nid, engine,
             NewUser(r.email, GenerateFromPassword(r.password), r.name))

RegisterHandler(mode, tbl, nid, engine, r) ==
    LET begun == RegisterBegin(mode, tbl, r)
    IN  IF begun.done THEN Outcome(tbl, nid, begun.resp)
        ELSE RegisterCreate(mode, tbl, nid, engine, begun.user)

\* Variant: the token does not carry the id.
Token_Fixed(id) == TokenPrefix \o <<"1">>

Token(id) == TokenPrefix \o FormatUint(id)

\* Variant: an unknown email gets a message of its own.
LoginHandler_TellsUnknown(mode, tbl, nid, r) ==
    IF BindLogin(r) # {}
    THEN Outcome(tbl, nid, BindFail("Login", BindLogin(r)))
    ELSE LET id == IF ReadFails(mode) THEN NotFound
                   ELSE FirstByEmail(tbl, r.email)
         IN  IF id = NotFound
             THEN Outcome(tbl, nid,
                      Fail(401, "Login", "Usuario no encontrado"))
             ELSE IF ~CompareHashAndPassword(tbl[id].Password, r.password)
             THEN Outcome(tbl, nid,
                      Fail(401, "Login", "Credenciales inválidas"))
             ELSE Outcome(tbl, nid,
                      Response(200, "Login", "", "Login exitoso", {},
                               Token(tbl[id].ID), {Summary(tbl[id])}))

\* Login answers every error of the lookup as it answers an unknown email.
LoginHandler(mode, tbl, nid, r) ==
    IF BindLogin(r) # {}
    THEN Outcome(tbl, nid, BindFail("Login", BindLogin(r)))
    ELSE LET id == IF ReadFails(mode) THEN NotFound
                   ELSE FirstByEmail(tbl, r.email)
         IN  IF id = NotFound
             THEN Outcome(tbl, nid,
                      Fail(401, "Login", "Credenciales inválidas"))
             ELSE IF ~CompareHashAndPassword(tbl[id].Password, r.password)
             THEN Outcome(tbl, nid,
                      Fail(401, "Login", "Credenciales inválidas"))
             ELSE Outcome(tbl, nid,
                      Response(200, "Login", "", "Login exitoso", {},
                               Token(tbl[id].ID), {Summary(tbl[id])}))

GetUsersHandler(mode, tbl, nid) ==
    IF ReadFails(mode)
    THEN Outcome(tbl, nid,
             Fail(500, "GetUsers", "Error al obtener usuarios"))
    ELSE Outcome(tbl, nid,
             Response(200, "GetUsers", "", "", {}, <<>>,
                      {Scrub(tbl[i]) : i \in Live(tbl)}))

\* DB.First(&user, id) as GetUser, UpdateUser and DeleteUser test it: every
\* error of the call is answered as a missing row is.
Load(mode, tbl, engine, id) ==
    IF ReadFails(mode) THEN NotFound ELSE FirstByID(tbl, engine, id)

\* Variant: the password is blanked on the row of the table.
GetUserHandler_ScrubsRow(mode, tbl, nid, engine, r) ==
    LET id == Load(mode, tbl, engine, r.id)
    IN  IF id = NotFound
        THEN Outcome(tbl, nid, Fail(404, "GetUser", "Usuario no encontrado"))
        ELSE Outcome([tbl EXCEPT ![id] = Scrub(@)], nid,
                 Response(200, "GetUser", "", "", {}, <<>>,
                          {Scrub(tbl[id])}))

GetUserHandler(mode, tbl, nid, engine, r) ==
    LET id == Load(mode, tbl, engine, r.id)
    IN  IF id = NotFound
        THEN Outcome(tbl, nid, Fail(404, "GetUser", "Usuario no encontrado"))
        ELSE Outcome(tbl, nid,
                 Response(200, "GetUser", "", "", {}, <<>>,
                          {Scrub(tbl[id])}))

\* Variant: the name is assigned whether or not the request carries one.
ApplyUpdate_AssignsEmptyName(user, r) ==
    LET named == [user EXCEPT !.Name = r.name]
    IN  IF r.email # "" THEN [named EXCEPT !.Email = r.email] ELSE named

\* if req.Name != "" { user.Name = req.Name }, and the same for the email,
\* on the handler's copy of the row.
ApplyUpdate(user, r) ==
    LET named == IF r.name # "" THEN [user EXCEPT !.Name = r.name] ELSE user
    IN  IF r.email # "" THEN [named EXCEPT !.Email = r.email] ELSE named

\* Variant: the row is loaded before the body is bound.
UpdateBegin_LooksUpFirst(mode, tbl, engine, r) ==
    IF Load(mode, tbl, engine, r.id) = NotFound
    THEN Step(TRUE, Fail(404, "UpdateUser", "Usuario no encontrado"), NoUser)
    ELSE IF BindUpdate(r) # {}
    THEN Step(TRUE, BindFail("UpdateUser", BindUpdate(r)), NoUser)
    ELSE Step(FALSE, NoResponse,
              ApplyUpdate(tbl[Load(mode, tbl, engine, r.id)], r))

\* UpdateUser up to the save: binding, the load of the row, and the
\* assignments to the handler's copy of it.
UpdateBegin(mode, tbl, engine, r) ==
    IF BindUpdate(r) # {}
    THEN Step(TRUE, BindFail("UpdateUser", BindUpdate(r)), NoUser)
    ELSE IF Load(mode, tbl, engine, r.id) = NotFound
    THEN Step(TRUE, Fail(404, "UpdateUser", "Usuario no encontrado"), NoUser)
    ELSE Step(FALSE, NoResponse,
              ApplyUpdate(tbl[Load(mode, tbl, engine, r.id)], r))

\* Variant: the save writes the name column only.
UpdateSave_WritesNameOnly(mode, tbl, nid, user) ==
    IF WriteFails(mode)
    THEN Outcome(tbl, nid,
             Fail(500, "UpdateUser", "Error al actualizar usuario"))
    ELSE Outcome(IF user.ID \in DOMAIN tbl
                 THEN [tbl EXCEPT ![user.ID].Name = user.Name]
                 ELSE Put(tbl, user.ID, user), nid,
             Response(200, "UpdateUser", "",
                      "Usuario actualizado exitosamente", {}, <<>>,
                      {Scrub(user)}))

\* Variant: the password is blanked on the copy before the save.
UpdateSave_ScrubsBeforeSave(mode, tbl, nid, user) ==
    LET saved == DBSave(tbl, Scrub(user))
    IN  IF WriteFails(mode) \/ ~saved.ok
        THEN Outcome(tbl, nid,
                 Fail(500, "UpdateUser", "Error al actualizar usuario"))
        ELSE Outcome(saved.users, nid,
                 Response(200, "UpdateUser", "",
                          "Usuario actualizado exitosamente", {}, <<>>,
                          {Scrub(user)}))

\* UpdateUser from the save on; user is the handler's copy of the row.
UpdateSave(mode, tbl, nid, user) ==
    LET saved == DBSave(tbl, user)
    IN  IF WriteFails(mode) \/ ~saved.ok
        THEN Outcome(tbl, nid,
                 Fail(500, "UpdateUser", "Error al actualizar usuario"))
        ELSE Outcome(saved.users, nid,
                 Response(200, "UpdateUser", "",
                          "Usuario actualizado exitosamente", {}, <<>>,
                          {Scrub(user)}))

UpdateUserHandler(mode, tbl, nid, engine, r) ==
    LET begun == UpdateBegin(mode, tbl, engine, r)
    IN  IF begun.done THEN Outcome(tbl, nid, begun.resp)
        ELSE UpdateSave(mode, tbl, nid, begun.user)

\* DeleteUser up to the delete: the load of the row.  DB.Delete(&user)
\* reads the primary key of the handler's copy and nothing else of it, so
\* the key is what is kept of the copy.
DeleteBegin(mode, tbl, engine, r) ==
    IF Load(mode, tbl, engine, r.id) = NotFound
    THEN Step(TRUE, Fail(404, "DeleteUser", "Usuario no encontrado"), NoUser)
    ELSE Step(FALSE, NoResponse,
              [NoUser EXCEPT !.ID = Load(mode, tbl, engine, r.id)])

\* DeleteUser from the delete on; user is the handler's copy of the row.
\* Deleting no row is no error.
DeleteFinish(mode, tbl, nid, user) ==
    IF WriteFails(mode)
    THEN Outcome(tbl, nid,
             Fail(500, "DeleteUser", "Error al eliminar usuario"))
    ELSE Outcome(DBDelete(tbl, user.ID), nid,
             Response(200, "DeleteUser", "",
                      "Usuario eliminado exitosamente", {}, <<>>, {}))

DeleteUserHandler(mode, tbl, nid, engine, r) ==
    LET begun == DeleteBegin(mode, tbl, engine, r)
    IN  IF begun.done THEN Outcome(tbl, nid, begun.resp)
        ELSE DeleteFinish(mode, tbl, nid, begun.user)

\* Variant: the profile is read from the table's record 1.
GetProfileHandler_ReadsRecord(tbl, nid) ==
    IF 1 \notin Live(tbl)
    THEN Outcome(tbl, nid,
             Fail(404, "GetProfile", "Usuario no encontrado"))
    ELSE Outcome(tbl, nid,
             Response(200, "GetProfile", "", "Perfil del usuario", {}, <<>>,
                      {Summary(tbl[1])}))

GetProfileHandler(tbl, nid) ==
    Outcome(tbl, nid,
        Response(200, "GetProfile", "", "Perfil del usuario", {}, <<>>,
                 {[id |-> 1, email |-> "usuario@ejemplo.com",
                   name |-> "Usuario Ejemplo", role |-> "user"]}))

----------------------------------------------------------------------------
(* Routes: routes.SetupRoutes                                              *)

PublicOps == {"HealthCheck", "Register", "Login"}

ProtectedOps == {"GetUsers", "GetUser", "UpdateUser", "DeleteUser",
                 "GetProfile"}

\* Variant: the gate writes its 401 and returns without c.Abort(), so the
\* chain goes on into the handler.
Protected_NoAbort(hdr, tbl, nid, out) ==
    IF AuthMiddleware(hdr) # 0
    THEN Outcome(out.users, out.nextID,
             Response(AuthMiddleware(hdr), out.resp.handler, AuthError(hdr),
                      "", {}, <<>>, {}))
    ELSE out

\* protected.Use(config.AuthMiddleware()): after c.Abort() the chain stops
\* and the route's handler, whose outcome is out, never runs.
Protected(hdr, tbl, nid, out) ==
    IF AuthMiddleware(hdr) # 0
    THEN Outcome(tbl, nid, Fail(AuthMiddleware(hdr), "none", AuthError(hdr)))
    ELSE out

----------------------------------------------------------------------------
(* The requests sent                                                       *)

\* Every email with a password and a name the binding accepts, every
\* password and name with the emails it accepts, and an empty body.
Registers ==
    {Request("Register", <<>>, <<>>, e, pwA, "A") : e \in Emails}
    \cup {Request("Register", <<>>, <<>>, e, p, n) :
              e \in ValidEmails, p \in RegisterPasswords,
              n \in RegisterNames}
    \cup {Request("Register", <<>>, <<>>, "", pwMissing, "")}

Logins ==
    {Request("Login", <<>>, <<>>, e, pwA, "") : e \in Emails}
    \cup {Request("Login", <<>>, <<>>, e, p, "") :
              e \in ValidEmails, p \in LoginPasswords}

\* Header and path of the requests on /users/:id: every header on the
\* path of row 1, and a header the gate admits on every path.
ByID == (Headers \X {FormatUint(1)}) \cup ({hdrForged} \X PathIDs)

GetUserCalls ==
    {Request("GetUser", c[1], c[2], "", <<>>, "") : c \in ByID}

\* A new name on every header and path, and every body on the paths of
\* the rows.
Updates ==
    {Request("UpdateUser", c[1], c[2], "", <<>>, "B") : c \in ByID}
    \cup {Request("UpdateUser", hdrForged, FormatUint(i), e, <<>>, n) :
              i \in 1..MaxID, e \in Emails, n \in UpdateNames}

Deletes ==
    {Request("DeleteUser", c[1], c[2], "", <<>>, "") : c \in ByID}

----------------------------------------------------------------------------
(* The server: gin runs each request on its own goroutine, so handlers     *)
(* interleave between their store calls; each store call is one atomic     *)
(* statement of the engine.                                                *)

\* The connections whose handler can be between its two store calls at
\* one time.
Workers == {"w1", "w2"}

\* A connection: where its handler stands (pc: "idle", or the write it is
\* about to issue) and the record the handler holds.
Flight(pc, user) == [pc |-> pc, user |-> user]

Idle == Flight("idle", NoUser)

Creating == {w \in Workers : inflight[w].pc = "create"}

Init ==
    /\ users = <<>>
    /\ nextID = 1
    /\ dbType \in {"sqlite", "postgres"}
    /\ req = NoRequest
    /\ resp = NoResponse
    /\ inflight = [w \in Workers |-> Idle]
    /\ store = "up"

\* One request served from arrival to response with no step of another
\* request in between.
Serve(r, out) ==
    /\ out.nextID + Cardinality(Creating) <= MaxID + 1
    /\ users' = out.users
    /\ nextID' = out.nextID
    /\ req' = r
    /\ resp' = out.resp
    /\ UNCHANGED <<dbType, inflight, store>>

\* The response is on the wire: the server keeps nothing of it.
Deliver ==
    /\ resp # NoResponse
    /\ req' = NoRequest
    /\ resp' = NoResponse
    /\ UNCHANGED <<users, nextID, dbType, inflight, store>>

HealthCheck ==
    /\ resp = NoResponse
    /\ Serve(Request("HealthCheck", <<>>, <<>>, "", <<>>, ""),
             HealthCheckHandler(users, nextID))

Register ==
    /\ resp = NoResponse
    /\ \E r \in Registers :
           Serve(r, RegisterHandler(store, users, nextID, dbType, r))

Login ==
    /\ resp = NoResponse
    /\ \E r \in Logins : Serve(r, LoginHandler(store, users, nextID, r))

GetUsers ==
    /\ resp = NoResponse
    /\ \E h \in Headers :
           Serve(Request("GetUsers", h, <<>>, "", <<>>, ""),
                 Protected(h, users, nextID,
                           GetUsersHandler(store, users, nextID)))

GetUser ==
    /\ resp = NoResponse
    /\ \E r \in GetUserCalls :
           Serve(r, Protected(r.hdr, users, nextID,
                        GetUserHandler(store, users, nextID, dbType, r)))

UpdateUser ==
    /\ resp = NoResponse
    /\ \E r \in Updates :
           Serve(r, Protected(r.hdr, users, nextID,
                        UpdateUserHandler(store, users, nextID, dbType, r)))

DeleteUser ==
    /\ resp = NoResponse
    /\ \E r \in Deletes :
           Serve(r, Protected(r.hdr, users, nextID,
                        DeleteUserHandler(store, users, nextID, dbType, r)))

GetProfile ==
    /\ resp = NoResponse
    /\ \E h \in Headers :
           Serve(Request("GetProfile", h, <<>>, "", <<>>, ""),
                 Protected(h, users, nextID,
                           GetProfileHandler(users, nextID)))

NextServe ==
    \/ HealthCheck
    \/ Register
    \/ Login
    \/ GetUsers
    \/ GetUser
    \/ UpdateUser
    \/ DeleteUser
    \/ GetProfile
    \/ Deliver

\* The first store call of the handler on connection w has returned and
\* the handler goes on to its write at pc next.  (A request answered
\* before a second store call is served in one step.)
Begun(w, begun, next) ==
    /\ ~begun.done
    /\ inflight' = [inflight EXCEPT ![w] = Flight(next, begun.user)]
    /\ UNCHANGED <<users, nextID, dbType, req, resp, store>>

\* Variant: a write the store refused is tried again.
Finished_Retries(w, out) ==
    IF out.resp.status = 500
    THEN UNCHANGED vars
    ELSE /\ inflight' = [inflight EXCEPT ![w] = Idle]
         /\ users' = out.users
         /\ nextID' = out.nextID
         /\ resp' = out.resp
         /\ UNCHANGED <<dbType, req, store>>

\* The write of the handler on connection w and its response.
Finished(w, out) ==
    /\ inflight' = [inflight EXCEPT ![w] = Idle]
    /\ users' = out.users
    /\ nextID' = out.nextID
    /\ resp' = out.resp
    /\ UNCHANGED <<dbType, req, store>>

BeginRegister(w) ==
    /\ resp = NoResponse
    /\ inflight[w].pc = "idle"
    /\ nextID + Cardinality(Creating) <= MaxID
    /\ \E r \in Registers :
           Begun(w, RegisterBegin(store, users, r), "create")

FinishRegister(w) ==
    /\ resp = NoResponse
    /\ inflight[w].pc = "create"
    /\ Finished(w, RegisterCreate(store, users, nextID, dbType,
                                  inflight[w].user))

BeginUpdate(w) ==
    /\ resp = NoResponse
    /\ inflight[w].pc = "idle"
    /\ \E r \in Updates :
          /\ AuthMiddleware(r.hdr) = 0
          /\ Begun(w, UpdateBegin(store, users, dbType, r), "save")

FinishUpdate(w) ==
    /\ resp = NoResponse
    /\ inflight[w].pc = "save"
    /\ Finished(w, UpdateSave(store, users, nextID, inflight[w].user))

BeginDelete(w) ==
    /\ resp = NoResponse
    /\ inflight[w].pc = "idle"
    /\ \E r \in Deletes :
          /\ AuthMiddleware(r.hdr) = 0
          /\ Begun(w, DeleteBegin(store, users, dbType, r), "delete")

FinishDelete(w) ==
    /\ resp = NoResponse
    /\ inflight[w].pc = "delete"
    /\ Finished(w, DeleteFinish(store, users, nextID, inflight[w].user))

\* Register, UpdateUser and DeleteUser with a pause between their two
\* store calls.
NextRace ==
    \/ \E w \in Workers :
          \/ BeginRegister(w)
          \/ FinishRegister(w)
          \/ BeginUpdate(w)
          \/ FinishUpdate(w)
          \/ BeginDelete(w)
          \/ FinishDelete(w)
    \/ Deliver

SpecRace == Init /\ [][NextRace]_vars

Next == NextServe \/ NextRace

Spec == Init /\ [][Next]_vars

\* A handler that has begun runs to its end: its store call returns and
\* gin writes the response.
Finish(w) == FinishRegister(w) \/ FinishUpdate(w) \/ FinishDelete(w)

SpecRaceFair ==
    /\ SpecRace
    /\ WF_vars(Deliver)
    /\ \A w \in Workers : SF_vars(Finish(w))

\* Between two store calls the store stops answering, or answers again.
StoreFails ==
    /\ resp = NoResponse
    /\ store = "up"
    /\ store' \in StoreModes \ {"up"}
    /\ UNCHANGED <<users, nextID, dbType, req, resp, inflight>>

StoreRecovers ==
    /\ resp = NoResponse
    /\ store # "up"
    /\ store' = "up"
    /\ UNCHANGED <<users, nextID, dbType, req, resp, inflight>>

NextOutage == Next \/ StoreFails \/ StoreRecovers

SpecOutage == Init /\ [][NextOutage]_vars

----------------------------------------------------------------------------
(* Properties                                                              *)

\* The header begins with the seven characters "Bearer ".
HasBearerPrefix(h) ==
    /\ Len(h) >= Len(BearerPrefix)
    /\ \A i \in 1..Len(BearerPrefix) : h[i] = BearerPrefix[i]

\* C1: on every protected route and in every store state, a request whose
\* Authorization header is absent or does not begin with "Bearer " is
\* answered 401.
C1_NoBearerIsUnauthorized ==
    (req.op \in ProtectedOps /\ ~HasBearerPrefix(req.hdr))
        => resp.status = 401

C1_Witness ==
    /\ req.op = "DeleteUser"
    /\ req.hdr = hdrLower
    /\ \E i \in Live(users) : req.id = FormatUint(i)
    /\ resp.status = 401

\* C2: when the gate rejects a request, no protected handler runs for it
\* and the table and its key counter are left exactly as they were, on
\* every route and for every body.
C2_RejectTouchesNothing ==
    [][(req'.op \in ProtectedOps /\ ~HasBearerPrefix(req'.hdr))
          => /\ resp'.handler = "none"
             /\ users' = users
             /\ nextID' = nextID]_vars

C2_Witness ==
    /\ req.op = "UpdateUser"
    /\ req.hdr = hdrNoSpace
    /\ req.name # ""
    /\ \E i \in Live(users) :
          req.id = FormatUint(i) /\ req.name # users[i].Name
    /\ resp.handler = "none"

\* C3: the gate admits every request whose header begins with "Bearer ",
\* whatever follows (nothing, or a token no login issued), whatever the
\* table holds and whether or not anybody ever logged in.
C3_AnyBearerIsAdmitted ==
    (req.op \in ProtectedOps /\ HasBearerPrefix(req.hdr))
        => /\ resp.handler = req.op
           /\ resp.status # 401

C3_Witness ==
    /\ req.op = "GetUsers"
    /\ req.hdr = hdrEmptyToken
    /\ users = <<>>
    /\ resp.status = 200

\* A registration input the data model calls valid: a well-formed email,
\* a password of at least six characters, a non-empty name.
ValidRegistration(r) ==
    /\ IsEmail(r.email)
    /\ Len(r.password) >= MinPasswordLen
    /\ r.name # ""

\* The email is held by no row of the table.
FreshEmail(tbl, e) == \A i \in DOMAIN tbl : tbl[i].Email # e

\* The response a login with these credentials would get right now.
LoginNow(tbl, nid, email, password) ==
    LoginHandler("up", tbl, nid, Request("Login", <<>>, <<>>, email, password, "")).resp

\* C4: every valid registration with an email no record holds succeeds
\* (201), and a login issued right after it with the same email and
\* password succeeds (200) with a token and the same id/email/name/role.
C4_RegisterThenLogin ==
    [][(req'.op = "Register" /\ ValidRegistration(req')
            /\ FreshEmail(users, req'.email))
          => /\ resp'.status = 201
             /\ LET l == LoginNow(users', nextID', req'.email, req'.password)
                IN  /\ l.status = 200
                    /\ l.token # <<>>
                    /\ l.body = resp'.body]_vars

\* C4, within the verifier's limit: the same statement for passwords of at
\* most BcryptMaxLen bytes.
C4_WithinBcryptLimit ==
    [][(req'.op = "Register" /\ ValidRegistration(req')
            /\ Len(req'.password) <= BcryptMaxLen
            /\ FreshEmail(users, req'.email))
          => /\ resp'.status = 201
             /\ LET l == LoginNow(users', nextID', req'.email, req'.password)
                IN  /\ l.status = 200
                    /\ l.token # <<>>
                    /\ l.body = resp'.body]_vars

C4_Witness ==
    /\ req.op = "Register"
    /\ resp.status = 201
    /\ LoginNow(users, nextID, req.email, req.password).status = 200

\* C5 as claimed: whenever Register is called with an email a live record
\* holds, it answers with the duplicate-email conflict and the table is
\* left as it was.
C5_DuplicateAlwaysConflict ==
    [][(req'.op = "Register" /\ FirstByEmail(users, req'.email) # NotFound)
          => /\ resp'.status = 400
             /\ resp'.error = "El email ya está registrado"
             /\ users' = users]_vars

\* C5, amended: a Register call whose body passes validation and whose
\* email a live record holds answers with the duplicate-email conflict
\* (400), creates no row and leaves every row, the existing record
\* included, as it was; with a body that fails validation the answer is
\* the validation failure, and the table is left as it was too.
C5_ValidDuplicateConflict ==
    [][(req'.op = "Register" /\ FirstByEmail(users, req'.email) # NotFound)
          => /\ resp'.status = 400
             /\ users' = users
             /\ IF BindRegister(req') = {}
                THEN resp'.error = "El email ya está registrado"
                ELSE resp'.invalid # {}]_vars

C5_Witness ==
    /\ req.op = "Register"
    /\ resp.error = "El email ya está registrado"
    /\ FirstByEmail(users, req.email) # NotFound
    /\ users[FirstByEmail(users, req.email)].Name # req.name

\* C6: a login with the email of an existing record and a password the
\* verifier rejects gets 401 and exactly the response a login with an
\* email no record holds gets.
C6_WrongPasswordLikeUnknownEmail ==
    (/\ req.op = "Login"
     /\ req.password # <<>>
     /\ FirstByEmail(users, req.email) # NotFound
     /\ ~CompareHashAndPassword(
            users[FirstByEmail(users, req.email)].Password, req.password))
        => /\ resp.status = 401
           /\ \A e \in ValidEmails :
                 FirstByEmail(users, e) = NotFound
                    => LoginNow(users, nextID, e, req.password) = resp

C6_Witness ==
    /\ req.op = "Login"
    /\ FirstByEmail(users, req.email) # NotFound
    /\ resp.status = 401
    /\ \E e \in ValidEmails :
          /\ FirstByEmail(users, e) = NotFound
          /\ LoginNow(users, nextID, e, req.password).status = 401

ByIDOps == {"GetUser", "UpdateUser", "DeleteUser"}

\* The path is the decimal id of no live record.
NoLiveID(tbl, path) == \A i \in Live(tbl) : path # FormatUint(i)

\* C7 as claimed: for an id no live record holds and for every body, an
\* admitted GetUser, UpdateUser or DeleteUser answers 404.
C7_MissingIDAlwaysNotFound ==
    [][(req'.op \in ByIDOps /\ HasBearerPrefix(req'.hdr)
            /\ NoLiveID(users, req'.id))
          => resp'.status = 404]_vars

\* C7, for the bodies that pass validation: for an id no live record
\* holds, an admitted GetUser or DeleteUser answers 404, and so does an
\* admitted UpdateUser whose email is absent or well-formed; the table is
\* left as it was.
C7_MissingIDNotFoundAfterBinding ==
    [][(req'.op \in ByIDOps /\ HasBearerPrefix(req'.hdr)
            /\ NoLiveID(users, req'.id)
            /\ (req'.op = "UpdateUser" => BindUpdate(req') = {}))
          => /\ users' = users
             /\ resp'.status = 404
             /\ resp'.error = "Usuario no encontrado"]_vars

\* The handlers that answer with user objects read from the table.
UserOps == {"Register", "Login", "GetUsers", "GetUser", "UpdateUser"}

\* C8: no response of Register, Login, GetUsers, GetUser or UpdateUser
\* carries a non-empty password field, whatever the table holds: neither a
\* password as supplied nor a stored hash.
C8_NoPasswordInResponses ==
    resp.handler \in UserOps
        => /\ \A u \in resp.body :
                 "Password" \in DOMAIN u => u.Password = <<>>
           /\ \A i \in DOMAIN users : resp.token # users[i].Password
           /\ resp.token # req.password \/ req.password = <<>>

C8_Witness ==
    /\ req.op = "GetUsers"
    /\ Cardinality(resp.body) = 2
    /\ \A u \in resp.body : u.Password = <<>>
    /\ \A i \in DOMAIN users : users[i].Password # <<>>

\* The record the lookup of the request finds in the table, NotFound when
\* it finds none.
Target(r) == FirstByID(users, dbType, r.id)

\* An admitted, well-formed update of a live record to the email another
\* live record holds.
UpdateToTakenEmail ==
    /\ req'.op = "UpdateUser"
    /\ HasBearerPrefix(req'.hdr)
    /\ Target(req') \in Live(users)
    /\ \E j \in Live(users) \ {Target(req')} : users[j].Email = req'.email

TwoLiveShareEmail(tbl) ==
    \E i, j \in Live(tbl) : i # j /\ tbl[i].Email = tbl[j].Email

\* C10 as claimed: an update that sets a record's email to the email
\* another live record holds succeeds (200), and two live records then
\* hold the same email.
C10_UpdateMakesDuplicate ==
    [][UpdateToTakenEmail
          => resp'.status = 200 /\ TwoLiveShareEmail(users')]_vars

\* C10, amended: UpdateUser itself does not re-check email uniqueness, but
\* the table's UNIQUE constraint on email refuses the save: an update that
\* sets a record's email to the email another live record holds fails with
\* the internal outcome (500), the table is left as it was, and no two
\* live records hold the same email afterwards.
C10_UpdateToTakenEmailRefused ==
    [][UpdateToTakenEmail
          => /\ resp'.status = 500
             /\ resp'.error = "Error al actualizar usuario"
             /\ users' = users
             /\ ~TwoLiveShareEmail(users')]_vars

C10_Witness ==
    /\ req.op = "UpdateUser"
    /\ resp.status = 500
    /\ \E i \in Live(users) :
          /\ req.id = FormatUint(i)
          /\ \E j \in Live(users) \ {i} : users[j].Email = req.email

\* C9: in every reachable state, under every sequence and every
\* interleaving of Register, UpdateUser and DeleteUser requests, no two
\* live records hold the same email.
C9_OneLiveRecordPerEmail == ~TwoLiveShareEmail(users)

\* Two live records exist, the save of an update that began before the
\* other record held its email has just been refused, and the other
\* connection is between its load and its write.
C9_Witness ==
    /\ Cardinality(Live(users)) = 2
    /\ req = NoRequest
    /\ resp.handler = "UpdateUser"
    /\ resp.status = 500
    /\ \E w \in Workers : inflight[w].pc \in {"save", "delete"}

\* Connection w holds a Register that passed the lookup and has not yet
\* inserted, for an email a row of the table has come to hold meanwhile.
LateInsert(w) ==
    /\ inflight[w].pc = "create"
    /\ \E i \in DOMAIN users : users[i].Email = inflight[w].user.Email

SomeRowsShareEmail(tbl) ==
    \E i, j \in DOMAIN tbl : i # j /\ tbl[i].Email = tbl[j].Email

\* The step that ends the handler of connection w.
Ends(w) == inflight[w].pc # "idle" /\ inflight'[w].pc = "idle"

\* C11 as claimed: when two Register requests with the same fresh email
\* have both passed the lookup, nothing prevents both from creating a
\* record: the insert of the second succeeds like the first.
C11_BothRegistrationsCreate ==
    [][\A w \in Workers :
          (LateInsert(w) /\ Ends(w))
             => /\ resp'.status = 201
                /\ SomeRowsShareEmail(users')]_vars

\* C11, amended: two Register requests with the same fresh email whose
\* lookups both run before either insert both pass the duplicate check,
\* but the table's UNIQUE constraint on email lets only the first insert
\* through: the second is refused, its request is answered 500, the table
\* is left as the first insert made it, and no two rows hold one email.
C11_SecondInsertRefused ==
    [][\A w \in Workers :
          (LateInsert(w) /\ Ends(w))
             => /\ resp'.status = 500
                /\ resp'.error = "Error al crear el usuario"
                /\ users' = users
                /\ ~SomeRowsShareEmail(users')]_vars

\* The insert of a Register that had passed the lookup has just been
\* refused: one live record holds an email and no connection is at work.
C11_Witness ==
    /\ req = NoRequest
    /\ resp.handler = "Register"
    /\ resp.error = "Error al crear el usuario"
    /\ Cardinality(Live(users)) = 1
    /\ \A w \in Workers : inflight[w].pc = "idle"

\* What an admitted request on id would be answered on this table.
GetUserNow(tbl, nid, id) ==
    GetUserHandler("up", tbl, nid, dbType,
        Request("GetUser", hdrForged, FormatUint(id), "", <<>>, "")).resp

UpdateUserNow(tbl, nid, id, name) ==
    UpdateUserHandler("up", tbl, nid, dbType,
        Request("UpdateUser", hdrForged, FormatUint(id), "", <<>>,
                name)).resp

DeleteUserNow(tbl, nid, id) ==
    DeleteUserHandler("up", tbl, nid, dbType,
        Request("DeleteUser", hdrForged, FormatUint(id), "", <<>>, "")).resp

Listed(tbl, nid, id) ==
    \E u \in GetUsersHandler("up", tbl, nid).resp.body : u.ID = id

\* The record id is gone for every caller.
Gone(tbl, nid, id) ==
    /\ GetUserNow(tbl, nid, id).status = 404
    /\ UpdateUserNow(tbl, nid, id, "B").status = 404
    /\ DeleteUserNow(tbl, nid, id).status = 404
    /\ ~Listed(tbl, nid, id)

\* C12: delete is permanent: once DeleteUser has removed a record and
\* answered 200, GetUser, UpdateUser and DeleteUser on its id answer 404
\* and GetUsers does not list it, after every later step.
C12_DeleteIsPermanent ==
    [][\A id \in DOMAIN users :
          users[id].DeletedAt => Gone(users', nextID', id)]_vars

\* The email is held by a deleted record and by no live one.
HeldByDeletedOnly(tbl, e) ==
    /\ FirstByEmail(tbl, e) = NotFound
    /\ \E i \in DOMAIN tbl : tbl[i].DeletedAt /\ tbl[i].Email = e

\* C13: after a user has been deleted, a Register with that user's email
\* and an otherwise valid input (here with a password bcrypt accepts)
\* succeeds (201) and creates a new record with a new id.
C13_ReRegisterAfterDelete ==
    [][(/\ req'.op = "Register"
        /\ ValidRegistration(req')
        /\ Len(req'.password) <= BcryptMaxLen
        /\ HeldByDeletedOnly(users, req'.email))
          => /\ resp'.status = 201
             /\ \E id \in DOMAIN users' \ DOMAIN users :
                   /\ users'[id].Email = req'.email
                   /\ ~users'[id].DeletedAt]_vars

\* An admitted update of a record the lookup finds.
AdmittedUpdate ==
    /\ req'.op = "UpdateUser"
    /\ HasBearerPrefix(req'.hdr)
    /\ Target(req') # NotFound

\* The record with exactly the supplied non-empty fields overwritten.
Overwritten(u, name, email) ==
    [u EXCEPT !.Name = IF name # "" THEN name ELSE @,
              !.Email = IF email # "" THEN email ELSE @]

UpdateApplied ==
    LET want == Overwritten(users[Target(req')], req'.name, req'.email)
    IN  /\ resp'.status = 200
        /\ users' = [users EXCEPT ![Target(req')] = want]
        /\ resp'.body = {Scrub(want)}

UpdateRefused(status) ==
    /\ resp'.status = status
    /\ users' = users
    /\ resp'.body = {}

\* C14 as claimed: on every admitted UpdateUser for an existing id, exactly
\* the supplied non-empty fields among name and email are overwritten, the
\* others keep their value, and the response shows the resulting record.
C14_UpdateOverwritesSupplied ==
    [][AdmittedUpdate => UpdateApplied]_vars

\* C14, amended: a supplied email that is not a well-formed address is
\* refused by validation (400) and one that another record of the table,
\* live or deleted, holds is refused by the store (500), the record staying
\* as it was in both cases; every other admitted UpdateUser for an existing
\* id overwrites exactly the supplied non-empty fields among name and
\* email, leaves the other fields and the other records as they were, and
\* shows the resulting record without its password.
C14_UpdateOverwritesSuppliedOrRefuses ==
    [][AdmittedUpdate
          => IF req'.email # "" /\ ~IsEmail(req'.email)
             THEN UpdateRefused(400)
             ELSE IF \E j \in DOMAIN users \ {Target(req')} :
                        users[j].Email = req'.email
             THEN UpdateRefused(500)
             ELSE UpdateApplied]_vars

C14_Witness ==
    /\ req.op = "UpdateUser"
    /\ resp.status = 200
    /\ req.name = "B" /\ req.email = ""
    /\ \E i \in Live(users) :
          /\ req.id = FormatUint(i)
          /\ users[i].Name = "B"
          /\ users[i].Email \in ValidEmails
          /\ \E u \in resp.body : u.ID = i /\ u.Name = "B"

\* The ids a step assigns.
Assigned == DOMAIN users' \ DOMAIN users

\* C15: record ids are server-assigned and strictly increasing: each
\* successful Register gets one new id, greater than every id assigned
\* before it (ids of deleted records included); no id is ever reused, and
\* no operation changes the id of an existing record.
C15_IdsIncreaseAndStay ==
    [][/\ DOMAIN users \subseteq DOMAIN users'
       /\ \A i \in DOMAIN users : users'[i].ID = users[i].ID
       /\ \A i \in DOMAIN users' : users'[i].ID = i
       /\ \A i \in Assigned : \A j \in DOMAIN users : j < i
       /\ Cardinality(Assigned) <= 1
       /\ (req'.op = "Register" /\ resp'.status = 201)
             => /\ Cardinality(Assigned) = 1
                /\ \A u \in resp'.body : u.id \in Assigned]_vars

C15_Witness ==
    /\ req.op = "Register"
    /\ resp.status = 201
    /\ \E i, j \in DOMAIN users :
          /\ i < j
          /\ users[i].DeletedAt
          /\ ~users[j].DeletedAt
          /\ \A u \in resp.body : u.id = j

\* C16: every record is created with role "user" and active = true, and
\* in every reachable state every record still has them: no operation
\* changes the role or the active flag.
C16_RoleAndActiveFixed ==
    /\ \A i \in DOMAIN users : users[i].Role = "user" /\ users[i].IsActive
    /\ (req.op = "Register" /\ resp.status = 201)
          => \A u \in resp.body : u.role = "user"

C16_Witness ==
    /\ req.op = "UpdateUser"
    /\ resp.status = 200
    /\ req.name = "B" /\ req.email # ""
    /\ \E i \in Live(users) :
          /\ req.id = FormatUint(i)
          /\ users[i].Name = "B" /\ users[i].Email = req.email
          /\ users[i].Role = "user" /\ users[i].IsActive

\* C17: the store never holds a plaintext password: the password a
\* successful Register stores is the hash of the supplied one and differs
\* from it, no later step changes a stored password, and no stored
\* password is one of the passwords a client can supply.
C17_OnlyHashesStored ==
    [][/\ (req'.op = "Register" /\ resp'.status = 201)
             => \A i \in Assigned :
                   /\ users'[i].Password = GenerateFromPassword(req'.password)
                   /\ users'[i].Password # req'.password
                   /\ CompareHashAndPassword(users'[i].Password,
                                             req'.password)
       /\ \A i \in DOMAIN users : users'[i].Password = users[i].Password
       /\ \A i \in DOMAIN users' : users'[i].Password \notin Passwords]_vars

C17_Witness ==
    /\ req.op = "Register"
    /\ resp.status = 201
    /\ \E i \in Live(users) :
          /\ users[i].Email = req.email
          /\ users[i].Password # req.password
          /\ CompareHashAndPassword(users[i].Password, req.password)

\* C18: a Register request that violates an input constraint (email missing
\* or malformed, password missing or shorter than 6 characters, name
\* missing) fails with the validation outcome (400) naming a failed
\* constraint and leaves the store unchanged, whether or not the email is
\* already registered.
C18_InvalidRegisterRejected ==
    [][(req'.op = "Register" /\ ~ValidRegistration(req'))
          => /\ resp'.status = 400
             /\ resp'.invalid # {}
             /\ resp'.invalid = BindRegister(req')
             /\ users' = users
             /\ nextID' = nextID]_vars

C18_Witness ==
    /\ req.op = "Register"
    /\ FirstByEmail(users, req.email) # NotFound
    /\ req.password = pwShort
    /\ resp.status = 400
    /\ <<"Password", "min">> \in resp.invalid

StoreOps ==
    {"Register", "Login", "GetUsers", "GetUser", "UpdateUser", "DeleteUser"}

\* The request is admitted and bound.
ReachesHandler(r) ==
    /\ r.op \in ProtectedOps => HasBearerPrefix(r.hdr)
    /\ r.op = "Register" => BindRegister(r) = {}
    /\ r.op = "Login" => BindLogin(r) = {}
    /\ r.op = "UpdateUser" => BindUpdate(r) = {}

\* The handler of r issues a store call that fails while the store is in
\* the mode given: its first call, or the write it goes on to.
FailedCall(mode, tbl, r) ==
    /\ r.op \in StoreOps
    /\ ReachesHandler(r)
    /\ \/ ReadFails(mode)
       \/ /\ WriteFails(mode)
          /\ \/ /\ r.op = "Register"
                /\ FirstByEmail(tbl, r.email) = NotFound
                /\ ~GenerateFails(r.password)
             \/ /\ r.op \in {"UpdateUser", "DeleteUser"}
                /\ FirstByID(tbl, dbType, r.id) # NotFound

\* C19: when a store call fails for a reason other than the absence of the
\* requested record, the operation that issued it (Register, Login,
\* GetUsers, GetUser, UpdateUser, DeleteUser) answers with the internal
\* outcome (500).
C19_StoreFailureIsInternal ==
    [][/\ FailedCall(store, users, req') => resp'.status = 500
       /\ \A w \in Workers :
             (Ends(w) /\ WriteFails(store)) => resp'.status = 500]_vars

\* Ids of one, two and three digits, beside those the table assigns.
TokenIDs == (1..(MaxID + 1)) \cup {9, 10, 11, 19, 21, 99, 100, 101, 110}

\* Different ids get different tokens.
TokensDiffer == \A i, j \in TokenIDs : i # j => Token(i) # Token(j)

\* C20: the token of a successful Login is a function of the record's id
\* alone: it is the fixed prefix followed by the decimal id, whatever the
\* record's other fields are and whenever the login happens, and records
\* with different ids get different tokens.
C20_TokenIsFunctionOfId ==
    /\ (req.op = "Login" /\ resp.status = 200)
          => \E i \in Live(users) :
                /\ users[i].Email = req.email
                /\ resp.token = TokenPrefix \o FormatUint(i)
                /\ \A u \in resp.body : u.id = i
                /\ \A j \in DOMAIN users \ {i} : Token(j) # resp.token
    /\ TokensDiffer

C20_Witness ==
    /\ req.op = "Login"
    /\ resp.status = 200
    /\ resp.token = TokenPrefix \o <<"2">>
    /\ users[2].Name = "B"
    /\ 1 \in Live(users)

StoreUntouched == users' = users /\ nextID' = nextID

\* C21: an admitted GetProfile returns the same fixed placeholder record
\* (id 1, role "user") for every bearer token and every state of the
\* store, and leaves the store as it was.
C21_ProfileIsPlaceholder ==
    [][(req'.op = "GetProfile" /\ HasBearerPrefix(req'.hdr))
          => /\ resp'.status = 200
             /\ resp'.message = "Perfil del usuario"
             /\ resp'.body = {[id |-> 1, email |-> "usuario@ejemplo.com",
                               name |-> "Usuario Ejemplo", role |-> "user"]}
             /\ StoreUntouched]_vars

C21_Witness ==
    /\ req.op = "GetProfile"
    /\ req.hdr = hdrForged
    /\ resp.status = 200
    /\ 1 \in DOMAIN users /\ users[1].DeletedAt
    /\ 2 \in Live(users) /\ users[2].Name = "B"

\* C23: HealthCheck, sent without an Authorization header, always answers
\* 200 with the static status payload and version string, in every state
\* of the store, also while the store does not answer; it leaves the store
\* as it was.
C23_HealthAlwaysOk ==
    [][req'.op = "HealthCheck"
          => /\ req'.hdr = hdrNone
             /\ resp'.status = 200
             /\ resp'.error = ""
             /\ resp'.message = "API funcionando correctamente"
             /\ resp'.body = {[status |-> "OK", version |-> "1.0.0"]}
             /\ StoreUntouched]_vars

C23_Witness ==
    /\ req.op = "HealthCheck"
    /\ resp.status = 200
    /\ store = "down"
    /\ Live(users) # {}
    /\ \E i \in DOMAIN users : users[i].DeletedAt

Statuses == {200, 201, 400, 401, 404, 500}

AtWrite(w) == inflight[w].pc \in {"create", "save", "delete"}

\* The rows a step adds or changes.
Touched == {i \in DOMAIN users' : i \notin DOMAIN users \/ users'[i] # users[i]}

\* C22: every request receives exactly one response and the service then
\* serves further requests: every connection is free again and again, a
\* handler at its write leaves it only by writing its response, which
\* frees its connection, the response once written is not replaced, a
\* failure is answered by the step that meets it with the store left as it
\* was, and no step touches more than one record.
C22_OneResponseThenFree ==
    /\ \A w \in Workers : []<>(inflight[w].pc = "idle")
    /\ [][/\ \A w \in Workers :
              /\ AtWrite(w) /\ inflight'[w] # inflight[w] => Ends(w)
              /\ Ends(w) => resp = NoResponse /\ resp'.status \in Statuses
              /\ (Ends(w) /\ resp'.status >= 400) => users' = users
          /\ resp # NoResponse => resp' = NoResponse /\ inflight' = inflight
          /\ resp' # resp /\ resp' # NoResponse
                => Cardinality({w \in Workers : Ends(w)}) = 1
          /\ Cardinality(Touched) <= 1
          /\ DOMAIN users \subseteq DOMAIN users']_vars

\* A write has just been refused and answered, its connection is free, and
\* the other connection is at its write.
C22_Witness ==
    /\ req = NoRequest
    /\ resp.handler = "Register"
    /\ resp.status = 500
    /\ \E w, v \in Workers :
          inflight[w].pc = "idle" /\ inflight[v].pc = "save"

\* Login with these credentials succeeds right now as record id.
LogsInAs(tbl, nid, email, password, id) ==
    /\ LoginNow(tbl, nid, email, password).status = 200
    /\ \A u \in LoginNow(tbl, nid, email, password).body : u.id = id

\* C24: UpdateUser never changes a record's stored password hash, id, role
\* or active flag: after a successful update, Login with the record's
\* current email and each password that logged in before still succeeds
\* as the same record, and Login with a replaced former email fails (401).
C24_UpdateKeepsCredentials ==
    [][(req'.op = "UpdateUser" /\ resp'.status = 200)
          => /\ DOMAIN users' = DOMAIN users
             /\ \A i \in DOMAIN users :
                   /\ users'[i].Password = users[i].Password
                   /\ users'[i].ID = users[i].ID
                   /\ users'[i].Role = users[i].Role
                   /\ users'[i].IsActive = users[i].IsActive
             /\ \A p \in Passwords :
                   LogsInAs(users, nextID, users[Target(req')].Email, p,
                            Target(req'))
                      => LogsInAs(users', nextID',
                                  users'[Target(req')].Email, p, Target(req'))
             /\ users'[Target(req')].Email # users[Target(req')].Email
                   => \A p \in Passwords \ {pwMissing} :
                         LoginNow(users', nextID', users[Target(req')].Email,
                                  p).status = 401]_vars

C24_Witness ==
    /\ req.op = "UpdateUser"
    /\ resp.status = 200
    /\ req.email = "c@d.com"
    /\ \E i \in Live(users) :
          /\ req.id = FormatUint(i)
          /\ users[i].Email = "c@d.com"
          /\ LogsInAs(users, nextID, "c@d.com", pwA, i)
    /\ FirstByEmail(users, "a@b.com") = NotFound
    /\ LoginNow(users, nextID, "a@b.com", pwA).status = 401

\* Both connections have passed the lookup for the same email, which no
\* row of the table holds, and neither has inserted yet.
Racing(w, v) ==
    /\ w # v
    /\ inflight[w].pc = "create" /\ inflight[v].pc = "create"
    /\ inflight[w].user.Email = inflight[v].user.Email
    /\ FreshEmail(users, inflight[w].user.Email)

Holders(tbl, e) == {i \in DOMAIN tbl : tbl[i].Email = e}

\* C25: of two Register requests with the same fresh email that both pass
\* the lookup before either inserts, the one that inserts first creates
\* the record and answers 201, and the other is stopped by the store's
\* unique-email constraint and answers 500, not the conflict outcome: one
\* record holds the email.
C25_OneOfTwoRegisters ==
    [][\A w, v \in Workers :
          /\ (Racing(w, v) /\ Ends(w))
                => /\ resp'.status = 201
                   /\ Cardinality(Holders(users', inflight[w].user.Email)) = 1
                   /\ LateInsert(v)'
          /\ (LateInsert(w) /\ Ends(w))
                => /\ resp'.status = 500
                   /\ resp'.error # "El email ya está registrado"
                   /\ Holders(users', inflight[w].user.Email)
                         = Holders(users, inflight[w].user.Email)]_vars

\* The first of the two has inserted and been answered 201; the other is
\* still before its insert, for the email the new record holds.
C25_Witness ==
    /\ req = NoRequest
    /\ resp.handler = "Register"
    /\ resp.status = 201
    /\ \E v \in Workers :
          /\ LateInsert(v)
          /\ Cardinality(Holders(users, inflight[v].user.Email)) = 1
          /\ \A i \in Holders(users, inflight[v].user.Email) :
                \A u \in resp.body : u.id = i

\* C26: UpdateUser is a read-modify-write of the whole record: a save that
\* succeeds leaves the record equal to the copy the handler loaded with
\* the supplied fields overwritten, whatever the record has become since
\* the load, so that of two concurrent updates of one id the later save
\* writes back the stale value of the field it did not supply.
C26_SaveWritesLoadedCopy ==
    [][\A w \in Workers :
          (inflight[w].pc = "save" /\ Ends(w) /\ resp'.status = 200)
             => /\ users'[inflight[w].user.ID] = inflight[w].user
                /\ resp'.body = {Scrub(inflight[w].user)}]_vars

\* Two updates of one record had both loaded it; the one that supplies a
\* name has saved and been answered 200, and the other, which supplies an
\* email, is at its save with a copy that carries the new email and the
\* name the record had before.
C26_Witness ==
    /\ req = NoRequest
    /\ resp.handler = "UpdateUser"
    /\ resp.status = 200
    /\ \E w \in Workers : \E i \in Live(users) :
          /\ inflight[w].pc = "save"
          /\ inflight[w].user.ID = i
          /\ inflight[w].user.Name # users[i].Name
          /\ inflight[w].user.Email # users[i].Email
          /\ \A u \in resp.body : u.ID = i /\ u.Name = users[i].Name

\* C27: an UpdateUser whose lookup runs before a concurrent DeleteUser of
\* the same id completes, and whose save runs after it, does not bring the
\* record back: once both requests have finished, GetUser on that id
\* yields not-found and GetUsers does not list it.
C27_SaveAfterDeleteStaysDeleted ==
    [][\A w \in Workers : \A id \in DOMAIN users :
          (/\ inflight[w].pc = "save"
           /\ inflight[w].user.ID = id
           /\ ~inflight[w].user.DeletedAt
           /\ users[id].DeletedAt
           /\ Ends(w)
           /\ resp'.status = 200)
             => /\ GetUserNow(users', nextID', id).status = 404
                /\ ~Listed(users', nextID', id)]_vars

\* C28: UpdateUser validates the body before it looks the record up: an
\* admitted request whose email is non-empty and not a well-formed address
\* is answered 400, naming the email constraint, with the store left as it
\* was, both when the path id exists and when it does not.
C28_UpdateBindsBeforeLookup ==
    [][(/\ req'.op = "UpdateUser"
        /\ HasBearerPrefix(req'.hdr)
        /\ req'.email # "" /\ ~IsEmail(req'.email))
          => /\ resp'.status = 400
             /\ resp'.invalid = {<<"Email", "email">>}
             /\ StoreUntouched]_vars

C28_Witness ==
    /\ req.op = "UpdateUser"
    /\ req.email = "bad"
    /\ Target(req) = NotFound
    /\ Live(users) # {}
    /\ resp.status = 400
    /\ resp.handler = "UpdateUser"

ReadOps == {"HealthCheck", "Login", "GetUsers", "GetUser", "GetProfile"}

\* C29: HealthCheck, Login, GetUsers, GetUser and GetProfile are read-only:
\* whatever their inputs and their outcome, the store after the request
\* equals the store before it; the scrubbing of GetUsers and GetUser
\* blanks the password of the response copy and leaves the stored hash.
C29_ReadOpsLeaveStore ==
    [][req'.op \in ReadOps
          => /\ StoreUntouched
             /\ (req'.op \in {"GetUsers", "GetUser"} /\ resp'.status = 200)
                   => \A u \in resp'.body :
                         /\ u.Password = <<>>
                         /\ users'[u.ID].Password = users[u.ID].Password
                         /\ users'[u.ID].Password # <<>>]_vars

C29_Witness ==
    /\ req.op = "GetUser"
    /\ resp.status = 200
    /\ \A u \in resp.body :
          /\ req.id = FormatUint(u.ID)
          /\ u.Password = <<>>
          /\ CompareHashAndPassword(users[u.ID].Password, pwA)

\* The password logs in to the row, live or not.
Opens(row, p) == CompareHashAndPassword(row.Password, p)

\* C30: after a user has been deleted, Login with that user's email and
\* correct password gets the response a login for a never registered email
\* gets (401, same message), unless another record has since been
\* registered with the email.
C30_DeletedCannotLogin ==
    [][\A id \in DOMAIN users : \A p \in Passwords :
          (/\ users[id].DeletedAt
           /\ Opens(users[id], p)
           /\ \A j \in Live(users') \ {id} :
                 users'[j].Email # users[id].Email)
             => LoginNow(users', nextID', users[id].Email, p)
                   = Fail(401, "Login", "Credenciales inválidas")]_vars

====
